---- MODULE Spec2Model ----
(***************************************************************************)
(* Model of krpc_mcp/server.py: the DocIndex store (snapshot, RLock,       *)
(* staleness policy, persistence), crawl_docs, and the query operations.   *)
(*                                                                         *)
(* Strings are sequences of tokens; a token stands for an indivisible      *)
(* piece of text ("/" , "krpc", ".html", ...).  Python dicts, which keep   *)
(* insertion order, are sequences of entries with pairwise distinct keys.  *)
(***************************************************************************)
EXTENDS Integers, Sequences, FiniteSets, TLC

VARIABLES
    pages,       \* DocIndex.pages: dict slug -> DocPage
    members,     \* DocIndex.members: dict id -> member entry
    indexed_at,  \* DocIndex.indexed_at: None or a time
    lockOwner,   \* DocIndex._lock (RLock): owning thread or NoThread
    lockDepth,   \* DocIndex._lock: recursion level
    disk,        \* the three cache files; None when a file does not exist
    now,         \* the clock read by datetime.now
    pc,          \* per thread: position in the operation it executes
    op,          \* per thread: the operation invoked and its arguments
    loc,         \* per thread: local variables of the running operation
    ret,         \* per thread: value returned by the last finished operation
    web,         \* the documentation site: per URL served, whether a GET may
                 \* fail and which links the page served may carry
    calls,       \* number of operations invoked so far
    committed    \* history: the snapshots complete reindexes have produced

vars == <<pages, members, indexed_at, lockOwner, lockDepth, disk, now,
          pc, op, loc, ret, web, calls, committed>>

\* Optional values: None, or Some(x) whose value is Val
None == <<>>
Some(x) == <<x>>
Val(o) == o[1]

NoThread == "none"

----------------------------------------------------------------------------
(* Strings *)

Min(a, b) == IF a < b THEN a ELSE b
Max(a, b) == IF a > b THEN a ELSE b

\* s[:n]
Take(s, n) == SubSeq(s, 1, Min(Len(s), Max(n, 0)))

\* s[n:] for n >= 0 (n counts dropped tokens)
Drop(s, n) == SubSeq(s, Min(n, Len(s)) + 1, Len(s))

\* s.startswith(p)
StartsWith(s, p) == Len(p) <= Len(s) /\ SubSeq(s, 1, Len(p)) = p

\* s.endswith(p)
EndsWith(s, p) ==
    Len(p) <= Len(s) /\ SubSeq(s, Len(s) - Len(p) + 1, Len(s)) = p

\* the positions at which p occurs in s (x is s, evaluated once)
Occurrences(s, p) ==
    UNION {{i \in 1..(Len(x) - Len(p) + 1) : SubSeq(x, i, i + Len(p) - 1) = p}
           : x \in {s}}

\* p in s
Contains(s, p) == Occurrences(s, p) # {}

SetMin(S) == CHOOSE x \in S : \A y \in S : x <= y

\* s.find(p), as a 1-based position; 0 when p does not occur
Find(s, p) == IF Contains(s, p) THEN SetMin(Occurrences(s, p)) ELSE 0

IsSpace(tok) == tok = " "

\* str.lower on one token
LowerTok(tok) ==
    CASE tok = "A" -> "a"
      [] tok = "B" -> "b"
      [] OTHER -> tok

\* s.lower()
Lower(s) == [i \in 1..Len(s) |-> LowerTok(s[i])]

RECURSIVE LStripSpace(_)
LStripSpace(s) ==
    IF s # <<>> /\ IsSpace(s[1]) THEN LStripSpace(Tail(s)) ELSE s

RECURSIVE RStripSpace(_)
RStripSpace(s) ==
    IF s # <<>> /\ IsSpace(s[Len(s)])
    THEN RStripSpace(SubSeq(s, 1, Len(s) - 1))
    ELSE s

\* s.strip()
Strip(s) == RStripSpace(LStripSpace(s))

\* s.lstrip("/")
RECURSIVE LStripSlash(_)
LStripSlash(s) ==
    IF s # <<>> /\ s[1] = "/" THEN LStripSlash(Tail(s)) ELSE s

\* " ".join(s.split()): runs of whitespace become one space, ends trimmed
\* (t is s without its leading whitespace and r the rest collapsed, each
\* evaluated once)
RECURSIVE CollapseSpace(_)
CollapseSpace(s) ==
    LET join(first, r) ==
            IF r = <<>> THEN <<first>> ELSE <<first, " ">> \o r
        from(t) ==
            IF t = <<>> THEN <<>>
            ELSE IF Len(t) = 1 THEN t
            ELSE IF IsSpace(t[2])
                 THEN CHOOSE c \in {join(t[1], r) :
                                     r \in {CollapseSpace(Tail(t))}} : TRUE
                 ELSE <<t[1]>> \o CollapseSpace(Tail(t))
    IN  CHOOSE c \in {from(t) : t \in {LStripSpace(s)}} : TRUE

----------------------------------------------------------------------------
(* URLs.  The first token of an absolute URL is its scheme and host. *)

ORIGIN == "https://krpc.github.io"
Origins == {ORIGIN, "http://other.example"}

ROOT_URL == <<ORIGIN, "/", "krpc", "/", "python", ".html">>
ALLOWED_PREFIX == <<ORIGIN, "/", "krpc", "/", "python">>
HTML == <<".html">>
KRPC_SEP == <<"/", "krpc", "/">>

\* v.startswith("http://") or v.startswith("https://")
IsUrlShaped(v) == v # <<>> /\ v[1] \in Origins

\* the part of s before the first token tok (all of s when tok is absent)
\* (x is s, evaluated once)
Before(s, tok) ==
    LET at(x) == {i \in 1..Len(x) : x[i] = tok}
        cut(x) == IF at(x) = {} THEN x ELSE SubSeq(x, 1, SetMin(at(x)) - 1)
    IN  CHOOSE r \in {cut(x) : x \in {s}} : TRUE

\* urlparse(url).path of an absolute URL: what follows the host, up to the
\* query ("?") and the fragment ("#")
UrlPath(url) == Before(Before(Tail(url), "#"), "?")

\* normalize_url: the URL with query and fragment emptied
normalize_url(url) == <<url[1]>> \o UrlPath(url)

\* path.split("/krpc/")[-1]: what follows the last of the left-to-right,
\* non-overlapping occurrences of the separator
RECURSIVE SplitLast(_, _)
SplitLast(s, sep) ==
    IF Contains(s, sep)
    THEN SplitLast(Drop(s, Find(s, sep) + Len(sep) - 1), sep)
    ELSE s

page_to_slug(url) == SplitLast(UrlPath(url), KRPC_SEP)

normalize_slug_or_url(value) ==
    LET v == Strip(value) IN
    IF IsUrlShaped(v)
    THEN SplitLast(UrlPath(normalize_url(v)), KRPC_SEP)
    ELSE LStripSlash(v)

\* a scope test that forgets the page extension
allowedPrefixOnly(url) == StartsWith(normalize_url(url), ALLOWED_PREFIX)

allowed(url) ==
    LET n == normalize_url(url) IN
    IF ~StartsWith(n, ALLOWED_PREFIX) THEN FALSE ELSE EndsWith(n, HTML)

----------------------------------------------------------------------------
(* Dicts, pages and members *)

MAX_PAGES == 3          \* 300 in the source; scaled so that a crawl reaches it
MAX_PAGE_CHARS == 20000
MAX_DESCRIPTION_CHARS == 1200

DocPage(url, slug, title, text) ==
    [url |-> url, slug |-> slug, title |-> title, text |-> text]

\* a dict insertion that keeps the entry already stored under the key
PutPageKeepFirst(d, p) ==
    IF \E i \in 1..Len(d) : d[i].slug = p.slug THEN d ELSE Append(d, p)

\* d[key] = entry for a dict whose entries carry their key in field slug
PutPage(d, p) ==
    IF \E i \in 1..Len(d) : d[i].slug = p.slug
    THEN [i \in 1..Len(d) |-> IF d[i].slug = p.slug THEN p ELSE d[i]]
    ELSE Append(d, p)

\* {p.slug: p for p in list}
RECURSIVE PagesDictFrom(_, _)
PagesDictFrom(d, list) ==
    IF list = <<>> THEN d
    ELSE PagesDictFrom(PutPage(d, Head(list)), Tail(list))

PagesDict(list) == PagesDictFrom(<<>>, list)

\* a lookup that falls back on the first page when the key is absent
GetPageEntryOrFirst(d, key) ==
    IF \E i \in 1..Len(d) : d[i].slug = key
    THEN Some(d[CHOOSE i \in 1..Len(d) : d[i].slug = key])
    ELSE IF d # <<>> THEN Some(d[1]) ELSE None

\* pages.get(key)
GetPageEntry(d, key) ==
    IF \E i \in 1..Len(d) : d[i].slug = key
    THEN Some(d[CHOOSE i \in 1..Len(d) : d[i].slug = key])
    ELSE None

\* get_page: the key it derives from its argument, looked up in the dict
GetPageLookup(d, slug_or_url) ==
    GetPageEntry(d, normalize_slug_or_url(slug_or_url))

\* get_page: the dict returned when the key is absent
PageNotFound(slug_or_url) ==
    [error |-> "not_found",
     message |-> <<"No page found for '">> \o slug_or_url \o <<"'.">>]

\* members[mid] = entry
PutMember(d, m) ==
    IF \E i \in 1..Len(d) : d[i].id = m.id
    THEN [i \in 1..Len(d) |-> IF d[i].id = m.id THEN m ELSE d[i]]
    ELSE Append(d, m)

----------------------------------------------------------------------------
(* crawl_docs *)

FAIL == [failed |-> TRUE]

\* title of a fetched document
PageTitle(doc, url) ==
    IF doc.title # <<>> THEN Strip(doc.title) ELSE page_to_slug(url)

\* extract_text
extract_text(doc) == Take(doc.text, MAX_PAGE_CHARS)

\* the loop over soup.select("dt[id]")
RECURSIVE AddMembers(_, _, _, _)
AddMembers(ms, dts, title, url) ==
    IF dts = <<>> THEN ms
    ELSE LET dt == Head(dts)
             mid == Strip(dt.id)
             entry == [id |-> mid,
                       title |-> title,
                       url |-> url \o <<"#">> \o mid,
                       signature |-> CollapseSpace(dt.text),
                       description |->
                           IF dt.dd = None THEN <<>>
                           ELSE Take(CollapseSpace(Val(dt.dd)),
                                     MAX_DESCRIPTION_CHARS)]
         IN  IF mid = <<>>
             THEN AddMembers(ms, Tail(dts), title, url)
             ELSE AddMembers(PutMember(ms, entry), Tail(dts), title, url)

InSeq(x, s) == \E i \in 1..Len(s) : s[i] = x

\* a condition that does not look at the frontier
ShouldEnqueueUnseen(linked, seen, to_visit) ==
    allowed(linked) /\ linked \notin seen

\* the condition under which a discovered link is queued
ShouldEnqueue(linked, seen, to_visit) ==
    allowed(linked) /\ linked \notin seen /\ ~InSeq(linked, to_visit)

\* the loop over soup.select("a[href]"); hrefs are the targets as resolved
\* by urljoin against the page's URL
RECURSIVE AddLinks(_, _, _)
AddLinks(to_visit, hrefs, seen) ==
    IF hrefs = <<>> THEN to_visit
    ELSE LET raw == Head(hrefs)
             linked == normalize_url(raw)
         IN  IF raw = <<>> THEN AddLinks(to_visit, Tail(hrefs), seen)
             ELSE IF ShouldEnqueue(linked, seen, to_visit)
                  THEN AddLinks(Append(to_visit, linked), Tail(hrefs), seen)
                  ELSE AddLinks(to_visit, Tail(hrefs), seen)

\* locals of crawl_docs at its first loop test
CrawlStart ==
    [to_visit |-> <<ROOT_URL>>, seen |-> {}, fetched |-> <<>>,
     pages |-> <<>>, members |-> <<>>]

\* the loop condition without the page cap
CrawlContinuesNoCap(c) == c.to_visit # <<>>

\* while to_visit and len(seen) < MAX_PAGES
CrawlContinues(c) == c.to_visit # <<>> /\ Cardinality(c.seen) < MAX_PAGES

\* whether the popped URL is skipped as already seen
AlreadySeen(url, seen) == url \in seen

\* an iteration that puts a URL whose fetch failed back at the end of the
\* frontier, unseen, to try it again
CrawlIterRetry(c, resp) ==
    LET url == normalize_url(Head(c.to_visit))
        rest == Tail(c.to_visit)
    IN  IF AlreadySeen(url, c.seen) THEN [c EXCEPT !.to_visit = rest]
        ELSE LET seen == c.seen \cup {url}
                 fetched == Append(c.fetched, url)
             IN  IF resp = FAIL
                 THEN [c EXCEPT !.to_visit = Append(rest, url)]
                 ELSE LET title == PageTitle(resp, url)
                          page == DocPage(url, page_to_slug(url), title,
                                          extract_text(resp))
                      IN  [to_visit |-> AddLinks(rest, resp.hrefs, seen),
                           seen |-> seen,
                           fetched |-> fetched,
                           pages |-> Append(c.pages, page),
                           members |-> AddMembers(c.members, resp.dts,
                                                  title, url)]

\* an iteration that gives up the rest of the frontier when its fetch fails
CrawlIterAbortOnFail(c, resp) ==
    LET url == normalize_url(Head(c.to_visit))
        rest == Tail(c.to_visit)
    IN  IF AlreadySeen(url, c.seen) THEN [c EXCEPT !.to_visit = rest]
        ELSE LET seen == c.seen \cup {url}
                 fetched == Append(c.fetched, url)
             IN  IF resp = FAIL
                 THEN [c EXCEPT !.to_visit = <<>>, !.seen = seen,
                                !.fetched = fetched]
                 ELSE LET title == PageTitle(resp, url)
                          page == DocPage(url, page_to_slug(url), title,
                                          extract_text(resp))
                      IN  [to_visit |-> AddLinks(rest, resp.hrefs, seen),
                           seen |-> seen,
                           fetched |-> fetched,
                           pages |-> Append(c.pages, page),
                           members |-> AddMembers(c.members, resp.dts,
                                                  title, url)]

\* one iteration of the loop, given the answer resp the fetch (if any) gets
CrawlIter(c, resp) ==
    LET url == normalize_url(Head(c.to_visit))
        rest == Tail(c.to_visit)
    IN  IF AlreadySeen(url, c.seen) THEN [c EXCEPT !.to_visit = rest]
        ELSE LET seen == c.seen \cup {url}
                 fetched == Append(c.fetched, url)
             IN  IF resp = FAIL
                 THEN [c EXCEPT !.to_visit = rest, !.seen = seen,
                                !.fetched = fetched]
                 ELSE LET title == PageTitle(resp, url)
                          page == DocPage(url, page_to_slug(url), title,
                                          extract_text(resp))
                      IN  [to_visit |-> AddLinks(rest, resp.hrefs, seen),
                           seen |-> seen,
                           fetched |-> fetched,
                           pages |-> Append(c.pages, page),
                           members |-> AddMembers(c.members, resp.dts,
                                                  title, url)]

----------------------------------------------------------------------------
(* Staleness and persistence *)

FRESH_WINDOW == 1       \* timedelta(hours=24); the clock counts days

\* datetime.isoformat and datetime.fromisoformat
isoformat(t) == <<"iso", t>>
fromisoformat(str) == str[2]

NoDisk == [pages |-> None, members |-> None, meta |-> None]

\* what _save_to_disk writes to PAGES_FILE, MEMBERS_FILE and META_FILE
SavedPages(ps) ==
    [i \in 1..Len(ps) |->
        [url |-> ps[i].url, slug |-> ps[i].slug,
         title |-> ps[i].title, text |-> ps[i].text]]

SavedMembers(ms) == ms

\* a metadata record that always carries the time of the write
SavedMetaNow(at, clock) ==
    [indexed_at |-> isoformat(clock), root_url |-> ROOT_URL]

SavedMeta(at, clock) ==
    [indexed_at |-> isoformat(IF at # None THEN Val(at) ELSE clock),
     root_url |-> ROOT_URL]

\* the dict comprehension of _load_from_disk
RECURSIVE LoadPages(_, _)
LoadPages(d, raw) ==
    IF raw = <<>> THEN d
    ELSE LET p == Head(raw) IN
         LoadPages(PutPage(d, DocPage(p.url, p.slug, p.title, p.text)),
                   Tail(raw))

\* the snapshot a DocIndex constructed over the files d starts with
LoadFromDisk(d) ==
    [pages |-> IF d.pages # None THEN LoadPages(<<>>, Val(d.pages)) ELSE <<>>,
     members |-> IF d.members # None THEN Val(d.members) ELSE <<>>,
     indexed_at |->
        IF d.meta # None /\ Val(d.meta).indexed_at # <<>>
        THEN Some(fromisoformat(Val(d.meta).indexed_at))
        ELSE None]

Snapshot == [pages |-> pages, members |-> members, indexed_at |-> indexed_at]

\* is_stale, evaluated with the lock held
IsStaleValue ==
    IF indexed_at = None THEN TRUE
    ELSE now - Val(indexed_at) > FRESH_WINDOW

\* the freshness test with the staleness condition inverted
SkipReindexWhenStale(force) == pages # <<>> /\ ~force /\ IsStaleValue

\* the test at the top of reindex
SkipReindex(force) == pages # <<>> /\ ~force /\ ~IsStaleValue

----------------------------------------------------------------------------
(* The lock *)

Threads == {"t1", "t2"}

\* a lock that never makes a caller wait
CanAcquireAlways(t) == TRUE

\* a lock that its owner cannot take again
CanAcquireOnce(t) == lockOwner = NoThread

\* RLock.acquire does not block
CanAcquire(t) == lockOwner = NoThread \/ lockOwner = t

Acquire(t) == /\ lockOwner' = t
              /\ lockDepth' = lockDepth + 1

Release(t) == /\ lockDepth' = lockDepth - 1
              /\ lockOwner' = IF lockDepth = 1 THEN NoThread ELSE lockOwner

----------------------------------------------------------------------------
(* search *)

MAX_RESULTS == 2        \* 20 in the source; scaled so that an index exceeds it

\* tokens in the order Python compares the text they stand for
TokOrder ==
    <<" ", "#", ".", ".html", "/", "?", "A", "B", "a", "b", "f",
      "http://other.example", "https://krpc.github.io", "krpc", "python", "q">>

TokRank(tok) == CHOOSE i \in 1..Len(TokOrder) : TokOrder[i] = tok

\* a < b on strings
RECURSIVE StrLess(_, _)
StrLess(a, b) ==
    IF b = <<>> THEN FALSE
    ELSE IF a = <<>> THEN TRUE
    ELSE IF a[1] = b[1] THEN StrLess(Tail(a), Tail(b))
    ELSE TokRank(a[1]) < TokRank(b[1])

\* the score search gives a page for the stripped, lowered query q
PageScore(page, q) ==
    (IF Contains(Lower(page.title), q) THEN 5 ELSE 0)
    + (IF Contains(Lower(page.slug), q) THEN 4 ELSE 0)
    + (IF Contains(Lower(page.text), q) THEN 1 ELSE 0)

\* a sort key of the score alone
ScoredBeforeNoTie(a, b) == a.score > b.score

\* the sort key (-score, slug): a sorts strictly before b
ScoredBefore(a, b) ==
    \/ a.score > b.score
    \/ a.score = b.score /\ StrLess(a.page.slug, b.page.slug)

\* list.sort is stable: x goes before the first element it sorts before
InsertScored(sorted, x) ==
    LET at == {i \in 1..Len(sorted) : ScoredBefore(x, sorted[i])} IN
    IF at = {} THEN Append(sorted, x)
    ELSE LET k == SetMin(at) IN
         SubSeq(sorted, 1, k - 1) \o <<x>> \o SubSeq(sorted, k, Len(sorted))

\* (acc is the list after one insertion, evaluated once)
RECURSIVE SortScoredFrom(_, _)
SortScoredFrom(sorted, list) ==
    IF list = <<>> THEN sorted
    ELSE CHOOSE r \in {SortScoredFrom(acc, Tail(list)) :
                         acc \in {InsertScored(sorted, Head(list))}} : TRUE

SortScored(list) == SortScoredFrom(<<>>, list)

\* the loop that collects the pages of score > 0, in dict order
RECURSIVE ScoredPages(_, _)
ScoredPages(ps, q) ==
    IF ps = <<>> THEN <<>>
    ELSE LET sc == PageScore(Head(ps), q) IN
         (IF sc > 0 THEN <<[score |-> sc, page |-> Head(ps)]>> ELSE <<>>)
         \o ScoredPages(Tail(ps), q)

\* max(1, min(limit, 20))
ClampLimit(limit) == Max(1, Min(limit, MAX_RESULTS))

\* (idx and the slice of the text are evaluated once)
Snippet(text, q) ==
    LET raw(idx) == IF idx < 0 THEN Take(text, 240)
                    ELSE LET start == Max(0, idx - 80)
                             end == Min(Len(text), idx + 160)
                         IN  SubSeq(text, start + 1, end)
    IN  CHOOSE r \in {CollapseSpace(x) :
                        x \in {raw(idx) :
                                 idx \in {Find(Lower(text), q) - 1}}} : TRUE

\* a search that tests the query for emptiness before stripping it
SearchResultNoStrip(ps, query, limit) ==
    LET q == Lower(query) IN
    IF q = <<>> THEN [query |-> query, results |-> <<>>]
    ELSE LET top == Take(SortScored(ScoredPages(ps, q)), ClampLimit(limit)) IN
         [query |-> query,
          results |-> [i \in 1..Len(top) |->
                         [score |-> top[i].score,
                          title |-> top[i].page.title,
                          slug |-> top[i].page.slug,
                          url |-> top[i].page.url,
                          snippet |-> Snippet(top[i].page.text, q)]]]

\* the body of search after ensure_fresh, over the page dict ps (q and top
\* are evaluated once)
SearchResult(ps, query, limit) ==
    LET results(q, top) ==
            [i \in 1..Len(top) |->
                [score |-> top[i].score,
                 title |-> top[i].page.title,
                 slug |-> top[i].page.slug,
                 url |-> top[i].page.url,
                 snippet |-> Snippet(top[i].page.text, q)]]
        found(q) ==
            IF q = <<>> THEN [query |-> query, results |-> <<>>]
            ELSE CHOOSE r \in
                    {[query |-> query, results |-> results(q, top)] :
                       top \in {Take(SortScored(ScoredPages(ps, q)),
                                     ClampLimit(limit))}} : TRUE
    IN  CHOOSE r \in {found(q) : q \in {Lower(Strip(query))}} : TRUE

----------------------------------------------------------------------------
(* get_member *)

MAX_ALTERNATIVES == 2   \* candidates[1:6] in the source; scaled likewise

MemberScore(target, class_name, member, key) ==
    IF target = key THEN 100
    ELSE IF Contains(key, target) THEN 80
    ELSE IF Contains(key, Lower(member)) /\ Contains(key, Lower(class_name))
         THEN 50
    ELSE IF Contains(key, Lower(member)) THEN 20
    ELSE 0

RECURSIVE Candidates(_, _, _, _)
Candidates(ms, target, class_name, member) ==
    IF ms = <<>> THEN <<>>
    ELSE LET sc == MemberScore(target, class_name, member, Lower(Head(ms).id))
         IN  (IF sc # 0 THEN <<[score |-> sc, entry |-> Head(ms)]>> ELSE <<>>)
             \o Candidates(Tail(ms), target, class_name, member)

\* a sort that puts the lowest score first
InsertCandidateAscending(sorted, x) ==
    LET at == {i \in 1..Len(sorted) : x.score < sorted[i].score} IN
    IF at = {} THEN Append(sorted, x)
    ELSE LET k == SetMin(at) IN
         SubSeq(sorted, 1, k - 1) \o <<x>> \o SubSeq(sorted, k, Len(sorted))

\* candidates.sort(key=lambda x: -x[0]), stable
InsertCandidate(sorted, x) ==
    LET at == {i \in 1..Len(sorted) : x.score > sorted[i].score} IN
    IF at = {} THEN Append(sorted, x)
    ELSE LET k == SetMin(at) IN
         SubSeq(sorted, 1, k - 1) \o <<x>> \o SubSeq(sorted, k, Len(sorted))

RECURSIVE SortCandidatesFrom(_, _)
SortCandidatesFrom(sorted, list) ==
    IF list = <<>> THEN sorted
    ELSE SortCandidatesFrom(InsertCandidate(sorted, Head(list)), Tail(list))

\* the result of a lookup that found nothing carries the key "error"
IsNotFound(r) == "error" \in DOMAIN r

\* get_member: the dict returned when no candidate was collected
MemberNotFound(service, class_name, member) ==
    [error |-> "not_found",
     message |-> <<"No API member matched ">> \o service \o <<".">>
                 \o class_name \o <<".">> \o member]

\* the body of get_member after ensure_fresh, over the member dict ms
MemberResult(ms, service, class_name, member) ==
    LET target == Lower(service \o <<".">> \o class_name \o <<".">> \o member)
        cands == SortCandidatesFrom(<<>>,
                     Candidates(ms, target, class_name, member))
    IN  IF cands = <<>> THEN MemberNotFound(service, class_name, member)
        ELSE LET alts == Take(Tail(cands), MAX_ALTERNATIVES) IN
             [best_match |-> cands[1].entry,
              alternatives |-> [i \in 1..Len(alts) |->
                                  [id |-> alts[i].entry.id,
                                   title |-> alts[i].entry.title,
                                   url |-> alts[i].entry.url]]]

----------------------------------------------------------------------------
(* The documentation site *)

URL_A == ALLOWED_PREFIX \o <<"/", "a", ".html">>
URL_K == ALLOWED_PREFIX \o <<"/", "krpc", "/", "a", ".html">>
URL_B == ALLOWED_PREFIX \o <<"/", "b", "/", "krpc", "/", "a", ".html">>
URL_S == ALLOWED_PREFIX \o <<"/", "krpc", "/", "/", "a", ".html">>
URL_CPP == <<ORIGIN, "/", "krpc", "/", "cpp", ".html">>
URL_NOEXT == ALLOWED_PREFIX \o <<"/", "a">>
URL_OTHER == <<"http://other.example", "/", "krpc", "/", "python", ".html">>

MEMBER_ID == <<"A", ".", "B", ".", "a">>

\* the document served at url, with the link targets hrefs
Doc(url, hrefs) ==
    [title |-> CASE url = ROOT_URL -> <<" ", "A", " ", "B">>
                 [] url = URL_A -> <<>>
                 [] OTHER -> <<"b">>,
     text |-> CASE url = ROOT_URL -> <<"a", " ", "B">>
                [] OTHER -> <<"b", " ", " ", "a">>,
     dts |-> CASE url = ROOT_URL ->
                    <<[id |-> MEMBER_ID, text |-> <<"a", " ", " ", "b">>,
                       dd |-> Some(<<"b", " ">>)]>>
               [] url = URL_A ->
                    <<[id |-> <<" ">>, text |-> <<"a">>, dd |-> None],
                      [id |-> MEMBER_ID, text |-> <<"b">>, dd |-> None]>>
               [] OTHER ->
                    <<[id |-> <<"A", ".", "b">>, text |-> <<"b">>,
                       dd |-> Some(<<"a">>)]>>,
     hrefs |-> hrefs]

\* the lists of at most n links drawn from the set links
LinkLists(links, n) == UNION {[1..k -> links] : k \in 0..n}

\* what session.get(url) may answer: FAIL (requests.RequestException) or a
\* document [title, text, dts, hrefs]
Responses(url) ==
    IF url \in DOMAIN web
    THEN (IF web[url].fails THEN {FAIL} ELSE {})
         \cup {Doc(url, l) : l \in LinkLists(web[url].links, web[url].nlinks)}
    ELSE {FAIL}

\* a site of two pages whose answers vary from one crawl to the next
WebSmall ==
    (ROOT_URL :> [fails |-> TRUE, links |-> {URL_A \o <<"#", "f">>},
                  nlinks |-> 1])
    @@ (URL_A :> [fails |-> FALSE, links |-> {ROOT_URL \o <<"?", "q">>},
                  nlinks |-> 1])

\* the files an earlier run left after crawling both pages at time 0
Disk0 ==
    LET c1 == CrawlIter(CrawlStart,
                        Doc(ROOT_URL, <<URL_A \o <<"#", "f">>, URL_CPP>>))
        c2 == CrawlIter(c1, Doc(URL_A, <<>>))
    IN  [pages |-> Some(SavedPages(PagesDict(c2.pages))),
         members |-> Some(SavedMembers(c2.members)),
         meta |-> Some(SavedMeta(Some(0), 0))]

----------------------------------------------------------------------------
(* The operations of DocIndex, one action per atomic step of a thread *)

MaxCalls == 2           \* operations invoked in one behaviour
MaxTime == 2            \* last value of the clock

NoOp == [kind |-> "none"]
\* force: the argument of the reindex call a thread has made; started: the
\* time of that call; crawl: the locals of crawl_docs and its result;
\* page: the page get_page has looked up
NoLoc == [force |-> FALSE, started |-> None, crawl |-> None, page |-> None]

\* reindex(force) is called
EnterReindex(force) == [NoLoc EXCEPT !.force = force, !.started = Some(now)]
NoRet == [none |-> TRUE]

SearchOp(query, limit) ==
    [kind |-> "search", query |-> query, limit |-> limit]
GetPageOp(slug_or_url) ==
    [kind |-> "get_page", slug_or_url |-> slug_or_url]
GetMemberOp(service, class_name, member) ==
    [kind |-> "get_member", service |-> service,
     class_name |-> class_name, member |-> member]
ReindexOp(force) == [kind |-> "reindex", force |-> force]

\* indexed_at.isoformat() if indexed_at else dflt
IsoOr(at, dflt) == IF at # None THEN isoformat(Val(at)) ELSE dflt

\* a tool is invoked: search, get_page and get_member start in ensure_fresh,
\* reindex at its with-statement
Call(t, o) ==
    /\ pc[t] \in {"idle", "done"}
    /\ calls < MaxCalls
    /\ calls' = calls + 1
    /\ op' = [op EXCEPT ![t] = o]
    /\ ret' = [ret EXCEPT ![t] = NoRet]
    /\ loc' = [loc EXCEPT ![t] =
                 IF o.kind = "reindex" THEN EnterReindex(o.force) ELSE NoLoc]
    /\ pc' = [pc EXCEPT ![t] =
                 IF o.kind = "reindex" THEN "ri_acquire" ELSE "ef_pages"]
    /\ UNCHANGED <<pages, members, indexed_at, lockOwner, lockDepth, disk,
                   now, web, committed>>

\* ensure_fresh: the test of self.pages, made without the lock
EnsureFreshPages(t) ==
    /\ pc[t] = "ef_pages"
    /\ IF pages # <<>>
       THEN /\ pc' = [pc EXCEPT ![t] = "ef_stale"]
            /\ loc' = loc
       ELSE /\ pc' = [pc EXCEPT ![t] = "ri_acquire"]
            /\ loc' = [loc EXCEPT ![t] = EnterReindex(TRUE)]
    /\ UNCHANGED <<pages, members, indexed_at, lockOwner, lockDepth, disk,
                   now, op, ret, web, calls, committed>>

\* ensure_fresh: is_stale takes the lock, reads indexed_at and the clock and
\* releases the lock; the status dict ensure_fresh then returns is dropped by
\* search, get_page and get_member
EnsureFreshStale(t) ==
    /\ pc[t] = "ef_stale"
    /\ CanAcquire(t)
    /\ IF IsStaleValue
       THEN /\ pc' = [pc EXCEPT ![t] = "ri_acquire"]
            /\ loc' = [loc EXCEPT ![t] = EnterReindex(TRUE)]
       ELSE /\ pc' = [pc EXCEPT ![t] = "query"]
            /\ loc' = loc
    /\ UNCHANGED <<pages, members, indexed_at, lockOwner, lockDepth, disk,
                   now, op, ret, web, calls, committed>>

\* reindex: with self._lock
ReindexAcquire(t) ==
    /\ pc[t] = "ri_acquire"
    /\ CanAcquire(t)
    /\ Acquire(t)
    /\ pc' = [pc EXCEPT ![t] = "ri_check"]
    /\ UNCHANGED <<pages, members, indexed_at, disk, now, op, loc, ret, web,
                   calls, committed>>

\* where a thread continues when reindex has returned
AfterReindex(t) == IF op[t].kind = "reindex" THEN "done" ELSE "query"

\* reindex: the freshness test; is_stale, when the test reaches it, takes the
\* lock again
ReindexCheck(t) ==
    /\ pc[t] = "ri_check"
    /\ (pages # <<>> /\ ~loc[t].force) => CanAcquire(t)
    /\ IF SkipReindex(loc[t].force)
       THEN /\ Release(t)
            /\ ret' = [ret EXCEPT ![t] =
                         [status |-> "ok", message |-> "Index already fresh.",
                          indexed_at |-> IsoOr(indexed_at, <<"unknown">>)]]
            /\ pc' = [pc EXCEPT ![t] = AfterReindex(t)]
            /\ loc' = loc
       ELSE /\ loc' = [loc EXCEPT ![t].crawl = CrawlStart]
            /\ pc' = [pc EXCEPT ![t] = "crawl"]
            /\ UNCHANGED <<lockOwner, lockDepth, ret>>
    /\ UNCHANGED <<pages, members, indexed_at, disk, now, op, web, calls,
                   committed>>

\* crawl_docs: one test of the loop condition, and one iteration when it holds
CrawlStep(t) ==
    /\ pc[t] = "crawl"
    /\ LET c == loc[t].crawl IN
       IF CrawlContinues(c)
       THEN /\ \E resp \in Responses(normalize_url(Head(c.to_visit))) :
                  loc' = [loc EXCEPT ![t].crawl = CrawlIter(c, resp)]
            /\ pc' = pc
       ELSE /\ loc' = [loc EXCEPT ![t].crawl =
                         [pages |-> c.pages, members |-> c.members]]
            /\ pc' = [pc EXCEPT ![t] = "set_pages"]
    /\ UNCHANGED <<pages, members, indexed_at, lockOwner, lockDepth, disk,
                   now, op, ret, web, calls, committed>>

\* an assignment that merges the crawled pages into the page map it finds
SetPagesMerge(t) ==
    /\ pc[t] = "set_pages"
    /\ pages' = PagesDictFrom(pages, loc[t].crawl.pages)
    /\ pc' = [pc EXCEPT ![t] = "set_members"]
    /\ UNCHANGED <<members, indexed_at, lockOwner, lockDepth, disk, now, op,
                   loc, ret, web, calls, committed>>

\* reindex: self.pages = {p.slug: p for p in pages}
SetPages(t) ==
    /\ pc[t] = "set_pages"
    /\ pages' = PagesDict(loc[t].crawl.pages)
    /\ pc' = [pc EXCEPT ![t] = "set_members"]
    /\ UNCHANGED <<members, indexed_at, lockOwner, lockDepth, disk, now, op,
                   loc, ret, web, calls, committed>>

\* reindex: self.members = members
SetMembers(t) ==
    /\ pc[t] = "set_members"
    /\ members' = loc[t].crawl.members
    /\ pc' = [pc EXCEPT ![t] = "set_indexed"]
    /\ UNCHANGED <<pages, indexed_at, lockOwner, lockDepth, disk, now, op,
                   loc, ret, web, calls, committed>>

\* a stamp that keeps the previous indexed_at when there is one
StampPrevious == IF indexed_at # None THEN Val(indexed_at) ELSE now

\* the value reindex stamps the snapshot with
Stamp == now

\* reindex: self.indexed_at = datetime.now(timezone.utc)
SetIndexed(t) ==
    /\ pc[t] = "set_indexed"
    /\ indexed_at' = Some(Stamp)
    /\ committed' = committed \cup
          {[pages |-> pages, members |-> members,
            indexed_at |-> Some(Stamp)]}
    /\ pc' = [pc EXCEPT ![t] = "save_pages"]
    /\ UNCHANGED <<pages, members, lockOwner, lockDepth, disk, now, op, loc,
                   ret, web, calls>>

\* _save_to_disk: with self._lock, then PAGES_FILE.write_text
SavePages(t) ==
    /\ pc[t] = "save_pages"
    /\ CanAcquire(t)
    /\ Acquire(t)
    /\ disk' = [disk EXCEPT !.pages = Some(SavedPages(pages))]
    /\ pc' = [pc EXCEPT ![t] = "save_members"]
    /\ UNCHANGED <<pages, members, indexed_at, now, op, loc, ret, web, calls,
                   committed>>

\* _save_to_disk: MEMBERS_FILE.write_text
SaveMembers(t) ==
    /\ pc[t] = "save_members"
    /\ disk' = [disk EXCEPT !.members = Some(SavedMembers(members))]
    /\ pc' = [pc EXCEPT ![t] = "save_meta"]
    /\ UNCHANGED <<pages, members, indexed_at, lockOwner, lockDepth, now, op,
                   loc, ret, web, calls, committed>>

\* _save_to_disk: META_FILE.write_text, and the end of its with-statement
SaveMeta(t) ==
    /\ pc[t] = "save_meta"
    /\ disk' = [disk EXCEPT !.meta = Some(SavedMeta(indexed_at, now))]
    /\ Release(t)
    /\ pc' = [pc EXCEPT ![t] = "ri_return"]
    /\ UNCHANGED <<pages, members, indexed_at, now, op, loc, ret, web, calls,
                   committed>>

\* reindex: the result dict, and the end of its with-statement; the locals
\* pages and members that hold what crawl_docs returned go out of scope
ReindexReturn(t) ==
    /\ pc[t] = "ri_return"
    /\ Release(t)
    /\ ret' = [ret EXCEPT ![t] =
                 [status |-> "ok", message |-> "Indexed",
                  npages |-> Len(pages), nmembers |-> Len(members),
                  indexed_at |-> isoformat(Val(indexed_at))]]
    /\ loc' = [loc EXCEPT ![t].crawl = None]
    /\ pc' = [pc EXCEPT ![t] = AfterReindex(t)]
    /\ UNCHANGED <<pages, members, indexed_at, disk, now, op, web, calls,
                   committed>>

\* search, get_page and get_member after ensure_fresh: the read of self.pages
\* or self.members, made without the lock
Query(t) ==
    /\ pc[t] = "query"
    /\ LET o == op[t] IN
       CASE o.kind = "search" ->
              /\ ret' = [ret EXCEPT ![t] =
                           SearchResult(pages, o.query, o.limit)]
              /\ pc' = [pc EXCEPT ![t] = "done"]
              /\ loc' = loc
         [] o.kind = "get_member" ->
              /\ ret' = [ret EXCEPT ![t] =
                           MemberResult(members, o.service, o.class_name,
                                        o.member)]
              /\ pc' = [pc EXCEPT ![t] = "done"]
              /\ loc' = loc
         [] o.kind = "get_page" ->
              LET page == GetPageLookup(pages, o.slug_or_url) IN
              IF page = None
              THEN /\ ret' = [ret EXCEPT ![t] = PageNotFound(o.slug_or_url)]
                   /\ pc' = [pc EXCEPT ![t] = "done"]
                   /\ loc' = loc
              ELSE /\ loc' = [loc EXCEPT ![t].page = Val(page)]
                   /\ pc' = [pc EXCEPT ![t] = "gp_indexed"]
                   /\ ret' = ret
    /\ UNCHANGED <<pages, members, indexed_at, lockOwner, lockDepth, disk,
                   now, op, web, calls, committed>>

\* get_page: the result dict, which reads self.indexed_at without the lock
GetPageReturn(t) ==
    /\ pc[t] = "gp_indexed"
    /\ ret' = [ret EXCEPT ![t] =
                 [title |-> loc[t].page.title, slug |-> loc[t].page.slug,
                  url |-> loc[t].page.url, content |-> loc[t].page.text,
                  indexed_at |-> IsoOr(indexed_at, None)]]
    /\ loc' = [loc EXCEPT ![t].page = None]
    /\ pc' = [pc EXCEPT ![t] = "done"]
    /\ UNCHANGED <<pages, members, indexed_at, lockOwner, lockDepth, disk,
                   now, op, web, calls, committed>>

\* time passes
Tick ==
    /\ now < MaxTime
    /\ now' = now + 1
    /\ UNCHANGED <<pages, members, indexed_at, lockOwner, lockDepth, disk,
                   pc, op, loc, ret, web, calls, committed>>

\* every step of a running operation
Step(t) ==
    \/ EnsureFreshPages(t)
    \/ EnsureFreshStale(t)
    \/ ReindexAcquire(t)
    \/ ReindexCheck(t)
    \/ CrawlStep(t)
    \/ SetPages(t)
    \/ SetMembers(t)
    \/ SetIndexed(t)
    \/ SavePages(t)
    \/ SaveMembers(t)
    \/ SaveMeta(t)
    \/ ReindexReturn(t)
    \/ Query(t)
    \/ GetPageReturn(t)

----------------------------------------------------------------------------
(* Construction: DocIndex.__init__ loads the snapshot from the files *)

InitStore(w, d, clock) ==
    /\ web = w
    /\ disk = d
    /\ pages = LoadFromDisk(d).pages
    /\ members = LoadFromDisk(d).members
    /\ indexed_at = LoadFromDisk(d).indexed_at
    /\ lockOwner = NoThread
    /\ lockDepth = 0
    /\ now = clock
    /\ pc = [t \in Threads |-> "idle"]
    /\ op = [t \in Threads |-> NoOp]
    /\ loc = [t \in Threads |-> NoLoc]
    /\ ret = [t \in Threads |-> NoRet]
    /\ calls = 0
    /\ committed = {LoadFromDisk(d)}

(* Concurrent callers of the four tools *)

StoreOps ==
    {SearchOp(<<"a">>, 1),
     GetPageOp(<<"python", "/", "a", ".html">>),
     GetMemberOp(<<"A">>, <<"B">>, <<"a">>),
     ReindexOp(FALSE), ReindexOp(TRUE)}

\* the process starts one day after the crawl that left Disk0
Init == \E d \in {NoDisk, Disk0} : InitStore(WebSmall, d, 1)

Next ==
    \/ \E t \in Threads : \E o \in StoreOps : Call(t, o)
    \/ \E t \in Threads : Step(t)
    \/ Tick

Spec == Init /\ [][Next]_vars

\* every thread that can take a step eventually takes one: a GET answers or
\* times out (REQUEST_TIMEOUT), file writes return, and a thread waiting for
\* the lock gets it once it stays free
SpecFair == Spec /\ \A t \in Threads : WF_vars(Step(t))

----------------------------------------------------------------------------
(* One caller on a larger site: every GET may fail or serve any short list *)
(* of links, in and out of scope, with queries and fragments               *)

MaxLinks == 2           \* links on one served page

InScopeUrls == {ROOT_URL, URL_A, URL_K, URL_B, URL_S}

RawLinks ==
    {ROOT_URL \o <<"?", "q">>, URL_A \o <<"#", "f">>, URL_K, URL_B, URL_S,
     URL_CPP, URL_NOEXT, URL_OTHER}

WebFull ==
    [u \in InScopeUrls |->
        [fails |-> TRUE, links |-> RawLinks, nlinks |-> MaxLinks]]

CrawlOps ==
    {GetPageOp(<<"a", ".html">>),
     GetPageOp(<<"/", "a", ".html">>),
     GetPageOp(<<" ", "python", ".html", " ">>),
     GetPageOp(URL_A \o <<"?", "q">>)}

InitCrawl == InitStore(WebFull, NoDisk, 1)

NextCrawl ==
    \/ \E o \in CrawlOps : Call("t1", o)
    \/ Step("t1")

SpecCrawl == InitCrawl /\ [][NextCrawl]_vars

\* a cyclic site with more pages in scope than MAX_PAGES: every page links
\* back to one crawled before it and on to the next ones, every GET may fail
\* and a page served may lack any of its links
WebCyclic ==
    (ROOT_URL :> [fails |-> TRUE, links |-> {URL_A \o <<"#", "f">>, URL_K},
                  nlinks |-> MaxLinks])
    @@ (URL_A :> [fails |-> TRUE, links |-> {ROOT_URL \o <<"?", "q">>, URL_B},
                  nlinks |-> MaxLinks])
    @@ (URL_K :> [fails |-> TRUE, links |-> {URL_A, URL_S},
                  nlinks |-> MaxLinks])
    @@ (URL_B :> [fails |-> TRUE, links |-> {URL_K, URL_S},
                  nlinks |-> MaxLinks])
    @@ (URL_S :> [fails |-> TRUE, links |-> {ROOT_URL, URL_OTHER},
                  nlinks |-> MaxLinks])

\* the thread that crawls keeps running: every GET answers or times out
\* (REQUEST_TIMEOUT) and the loop body blocks nowhere else
SpecCrawlFair ==
    /\ InitStore(WebCyclic, NoDisk, 1)
    /\ [][NextCrawl]_vars
    /\ WF_vars(CrawlStep("t1"))

----------------------------------------------------------------------------
(* One caller that reindexes over the snapshot of an earlier run, on a site *)
(* that has changed: two of its pages share a slug and the page python/a.html *)
(* of the earlier snapshot is no longer served                              *)

WebCollide ==
    (ROOT_URL :> [fails |-> TRUE, links |-> {URL_K, URL_B},
                  nlinks |-> MaxLinks])
    @@ (URL_K :> [fails |-> TRUE, links |-> {ROOT_URL \o <<"?", "q">>},
                  nlinks |-> 1])
    @@ (URL_B :> [fails |-> TRUE, links |-> {URL_K}, nlinks |-> 1])

ReplaceOps ==
    {ReindexOp(TRUE), ReindexOp(FALSE), GetPageOp(<<"a", ".html">>)}

InitReplace == \E d \in {NoDisk, Disk0} : InitStore(WebCollide, d, 1)

NextReplace ==
    \/ \E o \in ReplaceOps : Call("t1", o)
    \/ Step("t1")
    \/ Tick

SpecReplace == InitReplace /\ [][NextReplace]_vars

----------------------------------------------------------------------------
(* One caller searching an index loaded from the files of an earlier run *)

MaxLimit == 3           \* largest limit passed to search

SearchSlugs ==
    {<<"a", ".html">>, <<"python", ".html">>, <<"python", "/", "a", ".html">>}
SearchTitles == {<<"A">>, <<"b">>}
SearchTexts == {<<"b">>, <<"B", " ", " ", "a">>}

\* the page files: lists of pages with pairwise distinct slugs, in any order
SearchPageFiles ==
    {f \in UNION {[1..n -> [url : {ROOT_URL}, slug : SearchSlugs,
                            title : SearchTitles, text : SearchTexts]] :
                  n \in 1..Cardinality(SearchSlugs)} :
        \A i, j \in 1..Len(f) : f[i].slug = f[j].slug => i = j}

SearchQueries ==
    {<<>>, <<" ", " ">>, <<"a">>, <<" ", "A", " ">>, <<"b">>, <<"python">>}

SearchOps ==
    {SearchOp(q, l) : q \in SearchQueries, l \in (0 - 1)..MaxLimit}

InitSearch ==
    \E f \in SearchPageFiles :
        InitStore(WebSmall,
                  [pages |-> Some(f), members |-> Some(<<>>),
                   meta |-> Some(SavedMeta(Some(1), 1))],
                  1)

NextSearch ==
    \/ \E o \in SearchOps : Call("t1", o)
    \/ EnsureFreshPages("t1")
    \/ EnsureFreshStale("t1")
    \/ Query("t1")

SpecSearch == InitSearch /\ [][NextSearch]_vars

----------------------------------------------------------------------------
(* Concurrent callers searching with blank queries while the index is      *)
(* rebuilt, over no files or the files of an earlier run                   *)

BlankQueries == {<<>>, <<" ", " ">>}

BlankOps ==
    {SearchOp(q, 2) : q \in BlankQueries} \cup {ReindexOp(TRUE)}

NextBlank ==
    \/ \E t \in Threads : \E o \in BlankOps : Call(t, o)
    \/ \E t \in Threads :
          \/ EnsureFreshPages(t)
          \/ EnsureFreshStale(t)
          \/ ReindexAcquire(t)
          \/ ReindexCheck(t)
          \/ CrawlStep(t)
          \/ SetPages(t)
          \/ SetMembers(t)
          \/ SetIndexed(t)
          \/ SavePages(t)
          \/ SaveMembers(t)
          \/ SaveMeta(t)
          \/ ReindexReturn(t)
          \/ Query(t)
    \/ Tick

SpecBlank == Init /\ [][NextBlank]_vars

----------------------------------------------------------------------------
(* Concurrent callers looking up pages and members, present and absent     *)

LookupOps ==
    {GetPageOp(<<"a", ".html">>),
     GetPageOp(<<"python", ".html">>),
     GetMemberOp(<<"A">>, <<"B">>, <<"python">>),
     GetMemberOp(<<"A">>, <<"B">>, <<"a">>)}

NextLookup ==
    \/ \E t \in Threads : \E o \in LookupOps : Call(t, o)
    \/ \E t \in Threads : Step(t)
    \/ Tick

SpecLookup == Init /\ [][NextLookup]_vars

----------------------------------------------------------------------------
(* One caller resolving members in an index loaded from the files of an    *)
(* earlier run                                                             *)

MaxMembers == 4         \* entries of the member file

ID_EXACT == <<"a", ".", "b", ".", "a">>
ID_EXACT_UPPER == <<"A", ".", "B", ".", "a">>
ID_INSIDE == <<"q", ".", "A", ".", "B", ".", "a">>
ID_BOTH == <<"B", ".", "a">>
ID_MEMBER == <<"f", ".", "a">>
ID_NEITHER == <<"f">>

MemberIds ==
    {ID_EXACT, ID_EXACT_UPPER, ID_INSIDE, ID_BOTH, ID_MEMBER, ID_NEITHER}

\* the entry crawl_docs stores for a dt of this id met on the seed page
MemberEntry(mid) ==
    [id |-> mid, title |-> <<"b">>, url |-> ROOT_URL \o <<"#">> \o mid,
     signature |-> mid, description |-> <<>>]

\* the member files: JSON objects of at most MaxMembers entries, whose keys
\* are pairwise distinct, in any order
MemberFiles ==
    {[i \in 1..Len(f) |-> MemberEntry(f[i])] :
        f \in {g \in UNION {[1..n -> MemberIds] : n \in 0..MaxMembers} :
                  \A i, j \in 1..Len(g) : g[i] = g[j] => i = j}}

MemberOps ==
    {GetMemberOp(<<"A">>, <<"B">>, <<"a">>),
     GetMemberOp(<<"q">>, <<"b">>, <<"A">>),
     GetMemberOp(<<"A">>, <<"B">>, <<>>),
     GetMemberOp(<<"A">>, <<"B">>, <<"python">>)}

InitMember ==
    \E f \in MemberFiles :
        InitStore(WebSmall,
                  [pages |-> Some(<<[url |-> ROOT_URL,
                                     slug |-> <<"python", ".html">>,
                                     title |-> <<"b">>, text |-> <<"b">>]>>),
                   members |-> Some(f),
                   meta |-> Some(SavedMeta(Some(1), 1))],
                  1)

NextMember ==
    \/ \E o \in MemberOps : Call("t1", o)
    \/ EnsureFreshPages("t1")
    \/ EnsureFreshStale("t1")
    \/ Query("t1")

SpecMember == InitMember /\ [][NextMember]_vars

----------------------------------------------------------------------------
(* Properties of the concurrent store *)

\* t is inside the with-statement of reindex
InReindex(t) ==
    pc[t] \in {"ri_check", "crawl", "set_pages", "set_members",
               "set_indexed", "save_pages", "save_members", "save_meta",
               "ri_return"}

\* t is crawling, replacing the snapshot or persisting it
ReindexInProgress(t) == InReindex(t) /\ pc[t] # "ri_check"

\* the steps that read the snapshot without the lock or hand back a result
ReadsSnapshot(t) == pc[t] \in {"ef_pages", "query", "gp_indexed"}

\* C1: every page get_page returns comes with the indexed_at of a snapshot
\* that holds this page: no result mixes the fields of two snapshots.
C1_SnapshotAtomic ==
    \A t \in Threads :
        (pc[t] = "done" /\ op[t].kind = "get_page" /\ ~IsNotFound(ret[t]))
        => \E snap \in committed :
              /\ ret[t].indexed_at = IsoOr(snap.indexed_at, None)
              /\ \E i \in 1..Len(snap.pages) :
                    /\ snap.pages[i].slug = ret[t].slug
                    /\ snap.pages[i].url = ret[t].url
                    /\ snap.pages[i].title = ret[t].title
                    /\ snap.pages[i].text = ret[t].content

\* C2: while a thread crawls, replaces or persists inside reindex, no other
\* thread reads the snapshot or returns a result.
C2_FullySerialized ==
    [][\A t \in Threads :
          (ReadsSnapshot(t) /\ pc'[t] # pc[t])
          => \A u \in Threads \ {t} : ~ReindexInProgress(u)]_vars

\* C3: a thread inside reindex owns the lock from the freshness test to the
\* return, and no two threads are inside reindex at once.
C3_ReindexExclusive ==
    \A t \in Threads :
        InReindex(t) =>
            /\ lockOwner = t
            /\ lockDepth >= 1
            /\ \A u \in Threads \ {t} : ~InReindex(u)

\* a thread has fetched a page while the other waits for the lock in reindex
C3_Witness ==
    \E t, u \in Threads :
        /\ pc[t] = "crawl"
        /\ loc[t].crawl.fetched # <<>>
        /\ pc[u] = "ri_acquire"

\* C4 as claimed: reindex(force=false) on a snapshot that is not stale
\* returns at once and changes nothing, whatever the page map holds.
C4_FreshReindexNoOp ==
    [][\A t \in Threads :
          (pc[t] = "ri_check" /\ pc'[t] # "ri_check"
           /\ ~loc[t].force /\ ~IsStaleValue)
          => /\ pc'[t] = "done"
             /\ loc'[t].crawl = None
             /\ UNCHANGED <<pages, members, indexed_at, disk>>]_vars

\* C4 as amended: reindex(force=false) on a snapshot that is not stale and
\* holds at least one page returns at once, fetches nothing and leaves
\* indexed_at, pages, members and the files unchanged.
C4_FreshNonEmptyReindexNoOp ==
    [][\A t \in Threads :
          (pc[t] = "ri_check" /\ pc'[t] # "ri_check"
           /\ ~loc[t].force /\ ~IsStaleValue /\ pages # <<>>)
          => /\ pc'[t] = "done"
             /\ loc'[t].crawl = None
             /\ UNCHANGED <<pages, members, indexed_at, disk>>]_vars

\* reindex(force=false) has returned without crawling
C4_Witness ==
    \E t \in Threads :
        /\ pc[t] = "done"
        /\ op[t] = ReindexOp(FALSE)
        /\ ret[t].message = "Index already fresh."
        /\ pages # <<>>

\* C5: reindex(force=true) always crawls, and the indexed_at it stamps and
\* returns is a clock value read after the crawl, never earlier than the call.
C5_ForcedReindexStamps ==
    \A t \in Threads :
        /\ (pc[t] \in {"save_pages", "save_members", "save_meta", "ri_return"}
            => /\ indexed_at # None
               /\ Val(loc[t].started) <= Val(indexed_at)
               /\ Val(indexed_at) <= now)
        /\ (pc[t] = "done" /\ op[t] = ReindexOp(TRUE)
            => /\ ret[t].message = "Indexed"
               /\ Val(loc[t].started) <= fromisoformat(ret[t].indexed_at)
               /\ fromisoformat(ret[t].indexed_at) <= now)

\* a forced reindex has returned, called when the snapshot loaded from the
\* files was still fresh and held pages
C5_Witness ==
    \E t \in Threads :
        /\ pc[t] = "done"
        /\ op[t] = ReindexOp(TRUE)
        /\ loc[t].started = Some(1)
        /\ ret[t].indexed_at = isoformat(1)
        /\ LoadFromDisk(Disk0) \in committed
        /\ Cardinality(committed) = 2

\* C8: ensure_fresh returns without a crawl exactly when the snapshot holds
\* a page and is not stale, and otherwise calls reindex(force=True).
C8_EnsureFreshDecision ==
    [][\A t \in Threads :
          (pc[t] \in {"ef_pages", "ef_stale"}
           /\ pc'[t] \in {"query", "ri_acquire"})
          => IF pages # <<>> /\ ~IsStaleValue
             THEN pc'[t] = "query"
             ELSE pc'[t] = "ri_acquire" /\ loc'[t].force]_vars

\* C9: when no reindex is running and the files exist, the files are the
\* image of the snapshot in memory, and loading them gives that snapshot.
C9_SaveLoadRoundTrip ==
    ((\A t \in Threads : ~InReindex(t)) /\ disk.meta # None)
    => /\ disk = [pages |-> Some(SavedPages(pages)),
                  members |-> Some(SavedMembers(members)),
                  meta |-> Some(SavedMeta(indexed_at, now))]
       /\ LoadFromDisk(disk) = Snapshot

\* a reindex of this run has finished and left two pages and a member
C9_Witness ==
    /\ \A t \in Threads : ~InReindex(t)
    /\ \E t \in Threads : pc[t] = "done" /\ ~IsNotFound(ret[t])
           /\ op[t].kind = "reindex" /\ ret[t].message = "Indexed"
    /\ Len(pages) = 2
    /\ members # <<>>
    /\ indexed_at = Some(2)
    /\ disk.meta = Some(SavedMeta(Some(2), 2))

----------------------------------------------------------------------------
(* Properties of the crawl and of the lookup after it *)

NoDuplicates(q) == \A i, j \in 1..Len(q) : q[i] = q[j] => i = j

\* C6: during a crawl the GETs made are of pairwise distinct, normalized
\* URLs, each is counted in seen whether it failed or not, and their number
\* never exceeds MAX_PAGES.
C6_CrawlBounded ==
    \A t \in Threads :
        pc[t] = "crawl" =>
            LET c == loc[t].crawl IN
            /\ Len(c.fetched) <= MAX_PAGES
            /\ NoDuplicates(c.fetched)
            /\ \A i \in 1..Len(c.fetched) :
                  normalize_url(c.fetched[i]) = c.fetched[i]
            /\ c.seen = {c.fetched[i] : i \in 1..Len(c.fetched)}

\* the cap has stopped a crawl in which a fetch failed, with URLs left in
\* the frontier and a link back to the seed met on the way
C6_Witness ==
    \E t \in Threads :
        /\ pc[t] = "crawl"
        /\ Len(loc[t].crawl.fetched) = MAX_PAGES
        /\ Len(loc[t].crawl.pages) < MAX_PAGES
        /\ Len(loc[t].crawl.to_visit) >= 2

\* the pages a reindex has just put into self.pages, as crawl_docs returned
\* them
JustIndexed(t) == IF pc[t] = "set_members" THEN loc[t].crawl.pages ELSE <<>>

\* get_page(page_to_slug(url)) finds the page crawled from url
FindsItsPage(ps, p) ==
    LET r == GetPageLookup(ps, page_to_slug(p.url)) IN
    r # None /\ Val(r).url = p.url

\* C7 as claimed: once reindex has built self.pages, get_page(slugOf(url))
\* returns the page of every URL that was crawled.
C7_LookupFindsEveryPage ==
    \A t \in Threads :
        \A i \in 1..Len(JustIndexed(t)) :
            FindsItsPage(pages, JustIndexed(t)[i])

\* C7 as amended: get_page(slugOf(url)) returns the page of a crawled URL
\* when no URL crawled later in the same reindex has the same slug and the
\* slug is a key that get_page's normalisation leaves as it is.
C7_LookupFindsUniqueSlug ==
    \A t \in Threads :
        LET ps == JustIndexed(t) IN
        \A i \in 1..Len(ps) :
            ((\A j \in (i + 1)..Len(ps) : ps[j].slug # ps[i].slug)
             /\ normalize_slug_or_url(ps[i].slug) = ps[i].slug)
            => FindsItsPage(pages, ps[i])

\* three URLs were crawled in one reindex, two of them with the same slug,
\* and the lookup finds the seed and the later of the two
C7_Witness ==
    \E t \in Threads :
        LET ps == JustIndexed(t) IN
        /\ Len(ps) = 3
        /\ ps[2].slug = ps[3].slug
        /\ FindsItsPage(pages, ps[1])
        /\ FindsItsPage(pages, ps[3])
        /\ ~FindsItsPage(pages, ps[2])

----------------------------------------------------------------------------
(* Properties of search *)

\* C10: the results of search are in descending order of score, ties in
\* ascending order of slug, each is an indexed page of score > 0, and there
\* are at most clamp(limit, 1, MAX_RESULTS) of them.
C10_SearchRanked ==
    \A t \in Threads :
        (pc[t] = "done" /\ op[t].kind = "search") =>
            LET r == ret[t].results
                lim == IF op[t].limit < 1 THEN 1
                       ELSE IF op[t].limit > MAX_RESULTS THEN MAX_RESULTS
                       ELSE op[t].limit
            IN  /\ Len(r) <= lim
                /\ \A i \in 1..Len(r) :
                      /\ r[i].score > 0
                      /\ \E k \in 1..Len(pages) : pages[k].slug = r[i].slug
                /\ \A i, j \in 1..Len(r) :
                      i < j => \/ r[i].score > r[j].score
                               \/ /\ r[i].score = r[j].score
                                  /\ StrLess(r[i].slug, r[j].slug)

\* a search with a limit above the cap returned as many results as the cap
\* allows, tied in score, out of three matching pages; the first of the dict
\* is not among them
C10_Witness ==
    \E t \in Threads :
        /\ pc[t] = "done"
        /\ op[t].kind = "search"
        /\ op[t].limit > MAX_RESULTS
        /\ Len(ret[t].results) = MAX_RESULTS
        /\ ret[t].results[1].score = ret[t].results[2].score
        /\ Len(pages) = 3
        /\ \A k \in 1..3 : PageScore(pages[k], Lower(Strip(op[t].query))) > 0
        /\ \A i \in 1..MAX_RESULTS : ret[t].results[i].slug # pages[1].slug

\* search(limit <= 0) returned one result
C10_WitnessLow ==
    \E t \in Threads :
        /\ pc[t] = "done"
        /\ op[t].kind = "search"
        /\ op[t].limit < 1
        /\ Len(ret[t].results) = 1

----------------------------------------------------------------------------
(* Properties of get_member *)

\* the score the member resolver is documented to give the id mid for the
\* query o, ids and names compared in lower case
ClaimedScore(o, mid) ==
    LET key == Lower(mid)
        composite == Lower(o.service \o <<".">> \o o.class_name
                           \o <<".">> \o o.member)
        hasMember == Contains(key, Lower(o.member))
        hasClass == Contains(key, Lower(o.class_name))
    IN  CASE key = composite -> 100
          [] key # composite /\ Contains(key, composite) -> 80
          [] ~Contains(key, composite) /\ hasMember /\ hasClass -> 50
          [] ~Contains(key, composite) /\ hasMember /\ ~hasClass -> 20
          [] OTHER -> 0

\* C11: get_member reports not-found exactly when no indexed member scores
\* above 0; otherwise its best match is an indexed member whose score (100
\* exact, 80 substring, 50 class and member, 20 member only) is maximal over
\* the index, and it returns at most MAX_ALTERNATIVES alternatives, each an
\* indexed member other than the best match that scores above 0 and no
\* higher than the best match.
C11_BestMemberMaximal ==
    \A t \in Threads :
        (pc[t] = "done" /\ op[t].kind = "get_member") =>
            LET o == op[t]
                r == ret[t]
                sc(i) == ClaimedScore(o, members[i].id)
            IN  IF \A i \in 1..Len(members) : sc(i) = 0
                THEN IsNotFound(r)
                ELSE /\ ~IsNotFound(r)
                     /\ \E b \in 1..Len(members) :
                           /\ members[b] = r.best_match
                           /\ \A i \in 1..Len(members) : sc(i) <= sc(b)
                           /\ Len(r.alternatives) <= MAX_ALTERNATIVES
                           /\ \A k \in 1..Len(r.alternatives) :
                                 \E j \in 1..Len(members) :
                                    /\ j # b
                                    /\ members[j].id = r.alternatives[k].id
                                    /\ sc(j) > 0
                                    /\ sc(j) <= sc(b)

\* the index lists a member only, a class-and-member, a substring and an
\* exact match in this order; get_member returned the exact match and as
\* many alternatives as it may, leaving one candidate out
C11_Witness ==
    \E t \in Threads :
        /\ pc[t] = "done"
        /\ op[t] = GetMemberOp(<<"A">>, <<"B">>, <<"a">>)
        /\ Len(members) = 4
        /\ members[1].id = ID_MEMBER
        /\ members[2].id = ID_BOTH
        /\ members[3].id = ID_INSIDE
        /\ members[4].id = ID_EXACT_UPPER
        /\ ret[t].best_match.id = ID_EXACT_UPPER
        /\ Len(ret[t].alternatives) = MAX_ALTERNATIVES
        /\ ret[t].alternatives[1].id = ID_INSIDE
        /\ ret[t].alternatives[2].id = ID_BOTH

----------------------------------------------------------------------------
(* Properties of search with a blank query *)

\* C12: search with an empty query or one made of whitespace only returns
\* the query and an empty result list, whatever the index holds and whether
\* or not it was crawled for this call.
C12_BlankQueryEmpty ==
    \A t \in Threads :
        (/\ pc[t] = "done"
         /\ op[t].kind = "search"
         /\ \A i \in 1..Len(op[t].query) : op[t].query[i] = " ")
        => /\ ret[t].results = <<>>
           /\ ret[t].query = op[t].query

\* a whitespace query has returned while the index, rebuilt since the
\* process started, holds a page whose text contains the query as typed
C12_Witness ==
    \E t \in Threads :
        /\ pc[t] = "done"
        /\ op[t].kind = "search"
        /\ op[t].query = <<" ", " ">>
        /\ ret[t].results = <<>>
        /\ indexed_at = Some(2)
        /\ \E k \in 1..Len(pages) : Contains(pages[k].text, op[t].query)

----------------------------------------------------------------------------
(* Properties of a crawl in which fetches fail *)

\* the URLs fetched so far that gave no page
FailedUrls(c) ==
    {u \in c.seen : \A i \in 1..Len(c.pages) : c.pages[i].url # u}

\* C13: an iteration whose fetch fails adds the URL to those fetched and
\* leaves the pages, the members and the rest of the frontier as they were,
\* and the loop goes on; a URL whose fetch failed has no page and no member,
\* was fetched once and is not queued again.
C13_FetchFailureSkipsUrl ==
    /\ [](\A t \in Threads :
            pc[t] = "crawl" =>
                LET c == loc[t].crawl IN
                \A u \in FailedUrls(c) :
                    /\ \A i \in 1..Len(c.members) :
                          ~StartsWith(c.members[i].url, u \o <<"#">>)
                    /\ ~InSeq(u, c.to_visit)
                    /\ Cardinality({i \in 1..Len(c.fetched) :
                                      c.fetched[i] = u}) = 1)
    /\ [][\A t \in Threads :
            (/\ pc[t] = "crawl"
             /\ pc'[t] = "crawl"
             /\ Len(loc'[t].crawl.fetched) > Len(loc[t].crawl.fetched)
             /\ Len(loc'[t].crawl.pages) = Len(loc[t].crawl.pages))
            => LET c == loc[t].crawl
                   d == loc'[t].crawl
               IN  /\ d.pages = c.pages
                   /\ d.members = c.members
                   /\ d.to_visit = Tail(c.to_visit)
                   /\ d.fetched =
                         Append(c.fetched, normalize_url(Head(c.to_visit)))]_vars

\* the seed linked two pages; the fetch of the first failed and the second,
\* queued before the failure, was fetched and gave a page and a member
C13_Witness ==
    \E t \in Threads :
        /\ pc[t] = "crawl"
        /\ loc[t].crawl.fetched = <<ROOT_URL, URL_K, URL_B>>
        /\ FailedUrls(loc[t].crawl) = {URL_K}
        /\ Len(loc[t].crawl.pages) = 2
        /\ loc[t].crawl.pages[2].url = URL_B
        /\ \E i \in 1..Len(loc[t].crawl.members) :
              StartsWith(loc[t].crawl.members[i].url, URL_B \o <<"#">>)

----------------------------------------------------------------------------
(* Properties of lookups that find nothing *)

\* the key of o is not a key of the page dict
PageAbsent(o) ==
    \A i \in 1..Len(pages) :
        pages[i].slug # normalize_slug_or_url(o.slug_or_url)

\* no indexed member scores above 0 for o
MemberAbsent(o) ==
    \A i \in 1..Len(members) : ClaimedScore(o, members[i].id) = 0

\* a result that carries the error marker and a message
IsMiss(r) ==
    /\ DOMAIN r = {"error", "message"}
    /\ r.error = "not_found"
    /\ r.message # <<>>

\* C14: get_page for a key absent from the page dict and get_member when no
\* indexed member scores above 0 return, as their value, a result with the
\* error marker and a message; and while the snapshot holds a page and is
\* not stale, no step of a lookup changes pages, members or indexed_at or
\* enters reindex.
C14_MissIsValue ==
    [][\A t \in Threads :
          LET o == op[t] IN
          /\ (/\ pc[t] = "query" /\ pc'[t] # "query"
               /\ o.kind = "get_page" /\ PageAbsent(o))
              => pc'[t] = "done" /\ IsMiss(ret'[t])
          /\ (/\ pc[t] = "query" /\ pc'[t] # "query"
               /\ o.kind = "get_member" /\ MemberAbsent(o))
              => pc'[t] = "done" /\ IsMiss(ret'[t])
          /\ (/\ o.kind \in {"get_page", "get_member"}
               /\ pc[t] \in {"ef_pages", "ef_stale", "query"}
               /\ pc'[t] # pc[t]
               /\ pages # <<>> /\ ~IsStaleValue)
              => /\ pc'[t] \in {"ef_stale", "query", "gp_indexed", "done"}
                 /\ UNCHANGED <<pages, members, indexed_at, disk>>]_vars

\* on the snapshot loaded from the files, still fresh, one caller's get_page
\* and the other's get_member have both reported a miss without a reindex
C14_Witness ==
    \E t, u \in Threads :
        /\ pc[t] = "done" /\ op[t].kind = "get_page"
        /\ pc[u] = "done" /\ op[u].kind = "get_member"
        /\ IsMiss(ret[t]) /\ IsMiss(ret[u])
        /\ loc[t].started = None /\ loc[u].started = None
        /\ PageAbsent(op[t]) /\ MemberAbsent(op[u])
        /\ Len(pages) = 2 /\ members # <<>>
        /\ ~IsStaleValue
        /\ Snapshot = LoadFromDisk(Disk0)

----------------------------------------------------------------------------
(* Termination of the crawl *)

\* C15: a crawl that has started returns, and at the moment it returns the
\* frontier is empty or the number of URLs seen equals MAX_PAGES, which it
\* never exceeds.
C15_CrawlTerminates ==
    /\ \A t \in Threads : (pc[t] = "crawl") ~> (pc[t] = "set_pages")
    /\ [](\A t \in Threads :
            pc[t] = "crawl" => Cardinality(loc[t].crawl.seen) <= MAX_PAGES)
    /\ [][\A t \in Threads :
            (pc[t] = "crawl" /\ pc'[t] # "crawl")
            => \/ loc[t].crawl.to_visit = <<>>
               \/ Cardinality(loc[t].crawl.seen) = MAX_PAGES]_vars

\* a crawl in which no fetch failed is about to return because it has seen
\* MAX_PAGES URLs, with URLs left in the frontier
C15_Witness ==
    \E t \in Threads :
        /\ pc[t] = "crawl"
        /\ Cardinality(loc[t].crawl.seen) = MAX_PAGES
        /\ Len(loc[t].crawl.pages) = MAX_PAGES
        /\ loc[t].crawl.to_visit # <<>>

----------------------------------------------------------------------------
(* Scope of the crawl *)

\* u has no query and no fragment, starts with the allowed prefix and ends
\* with the page extension
InScope(u) ==
    /\ \A i \in 1..Len(u) : u[i] \notin {"?", "#"}
    /\ Len(u) >= Len(ALLOWED_PREFIX)
    /\ SubSeq(u, 1, Len(ALLOWED_PREFIX)) = ALLOWED_PREFIX
    /\ u[Len(u)] = ".html"

\* C16: every URL a crawl has fetched or holds in its frontier is the seed
\* or a URL without query and fragment that starts with ALLOWED_PREFIX and
\* ends with ".html".
C16_OnlyAllowedFetched ==
    \A t \in Threads :
        pc[t] = "crawl" =>
            LET c == loc[t].crawl IN
            /\ \A i \in 1..Len(c.fetched) :
                  c.fetched[i] = ROOT_URL \/ InScope(c.fetched[i])
            /\ \A i \in 1..Len(c.to_visit) :
                  c.to_visit[i] = ROOT_URL \/ InScope(c.to_visit[i])

\* the seed has served a link without the page extension and one with a
\* fragment, of which the second was queued and fetched without it; that
\* page has served a link outside the prefix and one to another host, and
\* the frontier is empty
C16_Witness ==
    \E t \in Threads :
        /\ pc[t] = "crawl"
        /\ loc[t].crawl =
              CrawlIter(CrawlIter(CrawlStart,
                                  Doc(ROOT_URL,
                                      <<URL_NOEXT, URL_A \o <<"#", "f">>>>)),
                        Doc(URL_A, <<URL_CPP, URL_OTHER>>))
        /\ loc[t].crawl.fetched = <<ROOT_URL, URL_A>>
        /\ loc[t].crawl.to_visit = <<>>

----------------------------------------------------------------------------
(* Properties of the snapshot a reindex leaves *)

\* every entry of the page map ps is a page of the list crawled
OnlyCrawled(ps, crawled) ==
    \A i \in 1..Len(ps) : \E j \in 1..Len(crawled) : ps[i] = crawled[j]

\* every page of the list crawled is an entry of the page map ps
EveryCrawled(ps, crawled) ==
    \A j \in 1..Len(crawled) : \E i \in 1..Len(ps) : ps[i] = crawled[j]

\* every page of the list crawled is an entry of the page map ps, unless a
\* page crawled after it has the same slug
LastOfEachSlug(ps, crawled) ==
    \A j \in 1..Len(crawled) :
        \/ \E i \in 1..Len(ps) : ps[i] = crawled[j]
        \/ \E k \in (j + 1)..Len(crawled) : crawled[k].slug = crawled[j].slug

\* the three cache files hold the snapshot <<ps, ms, at>>
Persisted(d, ps, ms, at) ==
    /\ d.pages = Some(SavedPages(ps))
    /\ d.members = Some(ms)
    /\ d.meta # None
    /\ Val(d.meta).indexed_at = isoformat(Val(at))

\* C17 as stated: when a reindex that has crawled returns, the page map
\* holds exactly the pages its crawl produced and the member map exactly the
\* members, and a crawl that produced nothing leaves an empty, persisted
\* snapshot stamped with the time of the reindex.
C17_ReindexReplacesExactly ==
    [][\A t \in Threads :
          (pc[t] = "ri_return" /\ pc'[t] # "ri_return") =>
              LET c == loc[t].crawl IN
              /\ OnlyCrawled(pages', c.pages)
              /\ EveryCrawled(pages', c.pages)
              /\ members' = c.members
              /\ indexed_at' # None
              /\ Val(indexed_at') \in Val(loc[t].started)..now'
              /\ c.pages = <<>> =>
                    /\ pages' = <<>> /\ members' = <<>>
                    /\ Persisted(disk', <<>>, <<>>, indexed_at')]_vars

\* C17, amended: when a reindex that has crawled returns, every entry of the
\* page map is a page its crawl produced, every page the crawl produced is
\* an entry unless a page crawled later has the same slug, and the member
\* map is the crawl's member map, so that nothing of the previous snapshot
\* is left unless the crawl produced it again; the snapshot is stamped with
\* a time of the reindex and persisted, and a crawl in which every fetch
\* failed leaves the page map and the member map empty.
C17_ReindexReplaces ==
    [][\A t \in Threads :
          (pc[t] = "ri_return" /\ pc'[t] # "ri_return") =>
              LET c == loc[t].crawl IN
              /\ OnlyCrawled(pages', c.pages)
              /\ LastOfEachSlug(pages', c.pages)
              /\ members' = c.members
              /\ indexed_at' # None
              /\ Val(indexed_at') \in Val(loc[t].started)..now'
              /\ Persisted(disk', pages', members', indexed_at')
              /\ c.pages = <<>> =>
                    /\ pages' = <<>> /\ members' = <<>>
                    /\ Persisted(disk', <<>>, <<>>, indexed_at')]_vars

\* a reindex over the snapshot of the earlier run has returned after a crawl
\* that produced the seed and the two pages of slug a.html: the map holds
\* the seed and the later of the two, and neither the page python/a.html
\* nor the member entry of the earlier snapshot
C17_Witness ==
    \E t \in Threads :
        /\ pc[t] = "done"
        /\ op[t].kind = "reindex"
        /\ LoadFromDisk(Disk0) \in committed
        /\ Len(pages) = 2
        /\ pages[1].url = ROOT_URL
        /\ pages[2].url = URL_B
        /\ pages[2].slug = <<"a", ".html">>
        /\ \A i \in 1..Len(pages) : pages[i].url # URL_A
        /\ members # LoadFromDisk(Disk0).members
        /\ disk.pages = Some(SavedPages(pages))

\* a reindex over the snapshot of the earlier run has returned after a crawl
\* whose only fetch failed: the snapshot is empty, stamped and persisted
C17_WitnessAllFailed ==
    \E t \in Threads :
        /\ pc[t] = "done"
        /\ op[t].kind = "reindex"
        /\ LoadFromDisk(Disk0) \in committed
        /\ pages = <<>>
        /\ members = <<>>
        /\ indexed_at = Some(now)
        /\ Persisted(disk, <<>>, <<>>, Some(now))

----------------------------------------------------------------------------
(* The frontier of the crawl *)

\* C18: whenever the crawl is at its loop test the frontier holds pairwise
\* distinct, normalized URLs none of which is in seen; and every iteration
\* pops a URL that is not in seen and makes exactly one GET, of that URL.
C18_FrontierFresh ==
    /\ [](\A t \in Threads :
            pc[t] = "crawl" =>
                LET c == loc[t].crawl IN
                /\ NoDuplicates(c.to_visit)
                /\ \A i \in 1..Len(c.to_visit) :
                      /\ c.to_visit[i] \notin c.seen
                      /\ \A j \in 1..Len(c.to_visit[i]) :
                            c.to_visit[i][j] \notin {"?", "#"})
    /\ [][\A t \in Threads :
            (pc[t] = "crawl" /\ pc'[t] = "crawl" /\ loc'[t] # loc[t]) =>
                LET c == loc[t].crawl
                    url == Head(c.to_visit)
                IN  /\ url \notin c.seen
                    /\ loc'[t].crawl.seen = c.seen \cup {url}
                    /\ loc'[t].crawl.fetched = Append(c.fetched, url)
                    /\ loc'[t].crawl.to_visit # <<>> =>
                          Head(loc'[t].crawl.to_visit) \notin
                              loc'[t].crawl.seen]_vars

\* the seed has served links to two pages, and the first of them has served
\* a link to the second, which is in the frontier, and one to the seed,
\* which is in seen: the frontier holds the second page once
C18_Witness ==
    \E t \in Threads :
        /\ pc[t] = "crawl"
        /\ loc[t].crawl =
              CrawlIter(CrawlIter(CrawlStart,
                                  Doc(ROOT_URL, <<URL_K, URL_B>>)),
                        Doc(URL_K, <<URL_B, ROOT_URL \o <<"?", "q">>>>))
        /\ loc[t].crawl.fetched = <<ROOT_URL, URL_K>>
        /\ loc[t].crawl.to_visit = <<URL_B>>

----------------------------------------------------------------------------
(* Callers that wait for the lock while another thread reindexes *)

\* C19: a caller of search, get_page or get_member that holds the lock at
\* the top of reindex and finds the snapshot non-empty and fresh does not
\* crawl.
C19_WaiterDoesNotCrawl ==
    [][\A t \in Threads :
          (/\ pc[t] = "ri_check"
           /\ op[t].kind \in {"search", "get_page", "get_member"}
           /\ pages # <<>>
           /\ ~IsStaleValue)
          => pc'[t] # "crawl"]_vars

----------------------------------------------------------------------------
(* Absence of deadlock *)

Returned(t) == pc[t] \in {"idle", "done"}

\* C20: the lock is held only by a thread inside reindex, at a depth of one
\* or, inside is_stale and _save_to_disk, two; it is free when no reindex is
\* running; and every call of a tool eventually returns.
C20_EveryCallReturns ==
    /\ [](/\ lockDepth \in 0..2
          /\ (lockOwner = NoThread) = (lockDepth = 0)
          /\ \A t \in Threads :
                /\ lockOwner = t =>
                      pc[t] \in {"ri_check", "crawl", "set_pages",
                                 "set_members", "set_indexed", "save_pages",
                                 "save_members", "save_meta", "ri_return"}
                /\ Returned(t) => lockOwner # t)
    /\ \A t \in Threads : ~Returned(t) ~> Returned(t)

\* both threads have returned from calls of which one has crawled and saved
\* while the other was waiting for the lock, and the lock is free
C20_Witness ==
    /\ \A t \in Threads : pc[t] = "done"
    /\ \E t \in Threads : op[t].kind # "reindex"
    /\ \E t \in Threads : "message" \in DOMAIN ret[t]
                             /\ ret[t].message = "Indexed"
    /\ disk.meta # None
    /\ lockOwner = NoThread
    /\ lockDepth = 0

====
